---- MODULE Spec2Model ----
(***************************************************************************)
(* Model of restaurant.chatbot.py: the SQLite tables Restaurants,          *)
(* Availability and Bookings, the BookingAgent operations book_table,      *)
(* check_availability, modify_booking and cancel_booking, and the          *)
(* RestaurantInterface operation update_availability.                      *)
(*                                                                         *)
(* A string such as "2023-10-15 19:00" is represented by the sequence of   *)
(* its " "-separated fields, <<"2023-10-15", "19:00">>, so that            *)
(* str.split(" ") is the sequence itself and [0] is its first field.       *)
(***************************************************************************)
EXTENDS Integers, Sequences, FiniteSets, TLC

VARIABLES Availability, Bookings, call, response, proc, txn, hist

vars == <<Availability, Bookings, call, response, proc, txn, hist>>

(* ------------------------------ bounds --------------------------------- *)
\* largest booking id (rowid) the model lets book_table generate
MaxId == 3
\* largest number of rows the model lets the Bookings table hold
MaxBookings == 2
\* largest number of times the model lets the program be started on one
\* database file
MaxStarts == 2

(* ------------------------- program constants --------------------------- *)
\* capacity of restaurant 1, 'The Gourmet Haven'
Capacity == 100
\* available_slots seeded for every sample date
SeedSlots == 100

Restaurants == << [id |-> 1, name |-> "The Gourmet Haven", capacity |-> Capacity,
                   opening_time |-> "10:00", closing_time |-> "23:00"] >>

sample_dates == << "2023-10-15", "2023-10-16", "2023-10-17", "2023-10-18",
                   "2023-10-19", "2023-10-20", "2023-10-21" >>

BookingConfirmed == "Booking confirmed!"
NoSlots          == "Sorry, no available slots at the requested time."
BookingUpdated   == "Booking updated!"
BookingNotFound  == "Booking not found."
BookingCanceled  == "Booking canceled."

(* ------------------------------ inputs --------------------------------- *)
RestaurantIds    == {1, 2}
CustomerNames    == {"Ann"}
CustomerPhones   == {"555-0100"}
\* two seeded dates, one of them with and without a time, and an unseeded date
ReservationTimes == { <<"2023-10-15", "19:00">>, <<"2023-10-15">>,
                      <<"2023-10-16", "12:30">>, <<"2023-11-01", "19:00">> }
PartySizes       == {60, Capacity}
BookingIds       == 1..MaxId
StaffDates       == {"2023-10-15", "2023-11-01"}
StaffSlots       == {0, 60, 150}

\* the inputs of the processes that run side by side
\* (two bookings of 60 exceed the 100 slots of a date; a modification makes
\* the party 40 and may move it to another date)
ConcRestaurantIds  == {1}
ConcBookTimes      == { <<"2023-10-15", "19:00">> }
ConcBookSizes      == {60}
ConcModifyTimes    == { <<"2023-10-15", "19:00">>, <<"2023-10-16", "12:30">> }
ConcModifySizes    == {40}

None == [id |-> 0]

(* --------------------------- pure helpers ------------------------------ *)
\* reservation_time.split(" ")[0]
DateOf(reservation_time) == reservation_time[1]

\* (SelectSeq yields the rows of a table that satisfy a WHERE clause, in
\* rowid order)

\* cursor.fetchone(): the first row of a result, or None
fetchone(rows) == IF rows = << >> THEN None ELSE Head(rows)

\* the rowid SQLite gives an INTEGER PRIMARY KEY row inserted without an id:
\* one more than the largest rowid in the table, 1 for an empty table
RECURSIVE MaxRowId(_)
MaxRowId(rows) ==
    IF rows = << >> THEN 0
    ELSE LET m == MaxRowId(Tail(rows)) IN IF Head(rows).id > m THEN Head(rows).id ELSE m

\* a rowid rule that fills the gaps: the smallest rowid not in the table
NewRowId_FirstFree(rows) ==
    CHOOSE n \in 1..(Len(rows) + 1) :
        /\ \A i \in 1..Len(rows) : rows[i].id # n
        /\ \A m \in 1..(n - 1) : \E i \in 1..Len(rows) : rows[i].id = m

NewRowId(rows) == MaxRowId(rows) + 1

\* CREATE TABLE ... ; INSERT ... for the restaurant and the sample dates
\* (the table has no uniqueness constraint besides its rowid, so INSERT OR
\* IGNORE adds the seven rows again each time a process starts)
initialize_database(avail) ==
    avail \o [ i \in 1..Len(sample_dates) |->
                [id |-> Len(avail) + i, restaurant_id |-> 1, date |-> sample_dates[i],
                 available_slots |-> SeedSlots] ]

\* SELECT available_slots FROM Availability WHERE restaurant_id = ? AND date = ?
AvailabilityRows(avail, restaurant_id, date) ==
    LET Test(r) == r.restaurant_id = restaurant_id /\ r.date = date
    IN  SelectSeq(avail, Test)

\* check_availability taking a date without an entry for free capacity
check_availability_NoEntryOk(avail, restaurant_id, reservation_time, party_size) ==
    LET date == DateOf(reservation_time)
        available_slots == fetchone(AvailabilityRows(avail, restaurant_id, date))
    IN  available_slots = None \/ available_slots.available_slots >= party_size

check_availability(avail, restaurant_id, reservation_time, party_size) ==
    LET date == DateOf(reservation_time)
        available_slots == fetchone(AvailabilityRows(avail, restaurant_id, date))
    IN  available_slots # None /\ available_slots.available_slots >= party_size

\* the SELECT of a booking without its WHERE clause
SelectBooking_AnyRow(rows, booking_id) == fetchone(rows)

\* SELECT * FROM Bookings WHERE id = ?
SelectBooking(rows, booking_id) ==
    LET Test(r) == r.id = booking_id IN fetchone(SelectSeq(rows, Test))

\* INSERT INTO Bookings (restaurant_id, ..., party_size) VALUES (?, ?, ?, ?, ?)
\* (the table is stored in rowid order, which is the order a SELECT without
\* ORDER BY scans it in: the new row goes behind the rows of smaller rowid)
InsertBooking(rows, restaurant_id, customer_name, customer_phone, reservation_time, party_size) ==
    LET id == NewRowId(rows)
        Before(r) == r.id < id
        After(r)  == r.id > id
    IN  SelectSeq(rows, Before)
           \o << [id |-> id, restaurant_id |-> restaurant_id,
                  customer_name |-> customer_name, customer_phone |-> customer_phone,
                  reservation_time |-> reservation_time, party_size |-> party_size] >>
           \o SelectSeq(rows, After)

\* the UPDATE of a booking without its WHERE clause
UpdateBooking_AllRows(rows, booking_id, new_reservation_time, new_party_size) ==
    [ i \in 1..Len(rows) |->
        [rows[i] EXCEPT !.reservation_time = new_reservation_time,
                        !.party_size = new_party_size] ]

\* UPDATE Bookings SET reservation_time = ?, party_size = ? WHERE id = ?
UpdateBooking(rows, booking_id, new_reservation_time, new_party_size) ==
    [ i \in 1..Len(rows) |->
        IF rows[i].id = booking_id
        THEN [rows[i] EXCEPT !.reservation_time = new_reservation_time,
                             !.party_size = new_party_size]
        ELSE rows[i] ]

\* DELETE FROM Bookings WHERE id = ?
DeleteBooking(rows, booking_id) ==
    LET Test(r) == r.id # booking_id IN SelectSeq(rows, Test)

\* UPDATE Availability SET available_slots = ? WHERE restaurant_id = ? AND date = ?
UpdateAvailabilityRows(avail, restaurant_id, date, available_slots) ==
    [ i \in 1..Len(avail) |->
        IF avail[i].restaurant_id = restaurant_id /\ avail[i].date = date
        THEN [avail[i] EXCEPT !.available_slots = available_slots]
        ELSE avail[i] ]

\* the model lets an insert happen only while the table stays within its bounds
CanInsert(rows) == NewRowId(rows) <= MaxId /\ Len(rows) < MaxBookings

(* ------------------------------ state ---------------------------------- *)
\* the chatbot processes that share the file restaurant.db, each through its
\* own connection
Procs == {1, 2}
Idle  == [pc |-> "idle", op |-> "none", restaurant_id |-> 0, booking_id |-> 0,
          reservation_time |-> << >>, party_size |-> 0, booking |-> None,
          result |-> "", overlap |-> FALSE]
\* the write transaction open on restaurant.db: its owner and the Bookings
\* table as the owner's connection sees it until the commit
NoTxn == [owner |-> 0, rows |-> << >>]
\* history kept for the properties, not by the program: the ids of the
\* bookings cancel_booking has deleted, and the ids of the stored bookings in
\* the order book_table created them
NoHist == [deleted |-> {}, order |-> << >>]

Init ==
    /\ Availability = initialize_database(<< >>)
    /\ Bookings = << >>
    /\ call = [op |-> "none"]
    /\ response = ""
    /\ proc = [p \in Procs |-> Idle]
    /\ txn = NoTxn
    /\ hist = NoHist

(* --------------- the handlers, one caller at a time -------------------- *)
book_table(restaurant_id, customer_name, customer_phone, reservation_time, party_size) ==
    /\ call' = [op |-> "book_table", restaurant_id |-> restaurant_id,
                reservation_time |-> reservation_time, party_size |-> party_size]
    /\ IF check_availability(Availability, restaurant_id, reservation_time, party_size)
       THEN /\ CanInsert(Bookings)
            /\ Bookings' = InsertBooking(Bookings, restaurant_id, customer_name,
                                         customer_phone, reservation_time, party_size)
            /\ response' = BookingConfirmed
       ELSE /\ response' = NoSlots
            /\ UNCHANGED Bookings
    /\ UNCHANGED <<Availability, proc, txn>>

\* modify_booking writing the new values before it checks availability
modify_booking_UpdateFirst(booking_id, new_reservation_time, new_party_size) ==
    LET booking == SelectBooking(Bookings, booking_id) IN
    /\ call' = [op |-> "modify_booking", booking_id |-> booking_id,
                reservation_time |-> new_reservation_time, party_size |-> new_party_size]
    /\ IF booking # None
       THEN /\ Bookings' = UpdateBooking(Bookings, booking_id,
                                         new_reservation_time, new_party_size)
            /\ IF check_availability(Availability, booking.restaurant_id,
                                     new_reservation_time, new_party_size)
               THEN response' = BookingUpdated
               ELSE response' = NoSlots
       ELSE /\ response' = BookingNotFound
            /\ UNCHANGED Bookings
    /\ UNCHANGED <<Availability, proc, txn, hist>>

modify_booking(booking_id, new_reservation_time, new_party_size) ==
    LET booking == SelectBooking(Bookings, booking_id) IN
    /\ call' = [op |-> "modify_booking", booking_id |-> booking_id,
                reservation_time |-> new_reservation_time, party_size |-> new_party_size]
    /\ IF booking # None
       THEN IF check_availability(Availability, booking.restaurant_id,
                                  new_reservation_time, new_party_size)
            THEN /\ Bookings' = UpdateBooking(Bookings, booking_id,
                                              new_reservation_time, new_party_size)
                 /\ response' = BookingUpdated
            ELSE /\ response' = NoSlots
                 /\ UNCHANGED Bookings
       ELSE /\ response' = BookingNotFound
            /\ UNCHANGED Bookings
    /\ UNCHANGED <<Availability, proc, txn, hist>>

cancel_booking(booking_id) ==
    /\ call' = [op |-> "cancel_booking", booking_id |-> booking_id]
    /\ Bookings' = DeleteBooking(Bookings, booking_id)
    /\ response' = BookingCanceled
    /\ UNCHANGED <<Availability, proc, txn>>

update_availability(restaurant_id, date, available_slots) ==
    /\ call' = [op |-> "update_availability", restaurant_id |-> restaurant_id,
                date |-> date, available_slots |-> available_slots]
    /\ Availability' = UpdateAvailabilityRows(Availability, restaurant_id, date, available_slots)
    /\ response' = "Availability updated!"
    /\ UNCHANGED <<Bookings, proc, txn, hist>>

BookTable ==
    \E r \in RestaurantIds, n \in CustomerNames, ph \in CustomerPhones,
       t \in ReservationTimes, s \in PartySizes :
        book_table(r, n, ph, t, s) /\ UNCHANGED hist

ModifyBooking ==
    \E b \in BookingIds, t \in ReservationTimes, s \in PartySizes : modify_booking(b, t, s)

CancelBooking == \E b \in BookingIds : cancel_booking(b) /\ UNCHANGED hist

UpdateAvailability ==
    \E r \in RestaurantIds, d \in StaffDates, s \in StaffSlots : update_availability(r, d, s)

Next == BookTable \/ ModifyBooking \/ CancelBooking

Spec == Init /\ [][Next]_vars

NextStaff == BookTable \/ ModifyBooking \/ CancelBooking \/ UpdateAvailability

SpecStaff == Init /\ [][NextStaff]_vars

(* ------------ the same handlers with the history recorded -------------- *)
\* the sequence s without the element x
Without(s, x) == LET Keep(y) == y # x IN SelectSeq(s, Keep)

BookTableTracked ==
    \E r \in RestaurantIds, n \in CustomerNames, ph \in CustomerPhones,
       t \in ReservationTimes, s \in PartySizes :
        /\ book_table(r, n, ph, t, s)
        /\ hist' = IF response' = BookingConfirmed
                   THEN [hist EXCEPT !.order = Append(@, NewRowId(Bookings))]
                   ELSE hist

CancelBookingTracked ==
    \E b \in BookingIds :
        /\ cancel_booking(b)
        /\ hist' = IF \E i \in 1..Len(Bookings) : Bookings[i].id = b
                   THEN [deleted |-> hist.deleted \cup {b}, order |-> Without(hist.order, b)]
                   ELSE hist

\* view_bookings prints the rows of the restaurant; response holds them
view_bookings(restaurant_id) ==
    LET Test(r) == r.restaurant_id = restaurant_id IN
    /\ call' = [op |-> "view_bookings", restaurant_id |-> restaurant_id]
    /\ response' = SelectSeq(Bookings, Test)
    /\ UNCHANGED <<Availability, Bookings, proc, txn, hist>>

ViewBookings == \E r \in RestaurantIds : view_bookings(r)

NextHist == BookTableTracked \/ ModifyBooking \/ CancelBookingTracked \/ ViewBookings

SpecHist == Init /\ [][NextHist]_vars

(* ---------- the program started again on the same database ------------- *)
\* main: initialize_database runs at every start of the program
Restart ==
    /\ Len(Availability) < MaxStarts * Len(sample_dates)
    /\ Availability' = initialize_database(Availability)
    /\ call' = [op |-> "main"]
    /\ response' = "Starting chatbot..."
    /\ UNCHANGED <<Bookings, proc, txn, hist>>

NextRestart == BookTable \/ ModifyBooking \/ CancelBooking \/ UpdateAvailability \/ Restart

SpecRestart == Init /\ [][NextRestart]_vars

(* ------------- the handlers, statement by statement, of ---------------- *)
(* ------------- processes that share the database file ------------------ *)
InitConc ==
    /\ Availability = initialize_database(initialize_database(<< >>))
    /\ Bookings = << >>
    /\ call = [op |-> "none"]
    /\ response = ""
    /\ proc = [p \in Procs |-> Idle]
    /\ txn = NoTxn
    /\ hist = NoHist

Running(q) == proc[q].pc \notin {"idle", "done"}

\* a call begins; the other process's call, if one is running, overlaps it
Begin(p, rec) ==
    /\ proc[p].pc = "idle"
    /\ LET over == \E q \in Procs \ {p} : Running(q) IN
       proc' = [q \in Procs |->
                  IF q = p THEN [rec EXCEPT !.overlap = over]
                  ELSE IF Running(q) THEN [proc[q] EXCEPT !.overlap = TRUE]
                  ELSE proc[q]]
    /\ UNCHANGED <<hist, Availability, Bookings, call, response, txn>>

CallBook(p) ==
    \E r \in ConcRestaurantIds, t \in ConcBookTimes, s \in ConcBookSizes :
        Begin(p, [Idle EXCEPT !.pc = "book_check", !.op = "book_table",
                              !.restaurant_id = r, !.reservation_time = t,
                              !.party_size = s])

CallModify(p) ==
    \E b \in BookingIds, t \in ConcModifyTimes, s \in ConcModifySizes :
        Begin(p, [Idle EXCEPT !.pc = "modify_select", !.op = "modify_booking",
                              !.booking_id = b, !.reservation_time = t,
                              !.party_size = s])

CallCancel(p) ==
    \E b \in BookingIds :
        Begin(p, [Idle EXCEPT !.pc = "cancel_delete", !.op = "cancel_booking",
                              !.booking_id = b])

\* book_table, line 71: the SELECT of check_availability
BookCheck(p) ==
    /\ proc[p].pc = "book_check"
    /\ IF check_availability(Availability, proc[p].restaurant_id,
                             proc[p].reservation_time, proc[p].party_size)
       THEN proc' = [proc EXCEPT ![p].pc = "book_insert"]
       ELSE proc' = [proc EXCEPT ![p].pc = "done", ![p].result = NoSlots]
    /\ UNCHANGED <<hist, Availability, Bookings, call, response, txn>>

\* book_table, lines 72-75: the INSERT opens the write transaction
BookInsert(p) ==
    /\ proc[p].pc = "book_insert"
    /\ txn = NoTxn
    /\ CanInsert(Bookings)
    /\ txn' = [owner |-> p,
               rows |-> InsertBooking(Bookings, proc[p].restaurant_id, "Ann", "555-0100",
                                      proc[p].reservation_time, proc[p].party_size)]
    /\ proc' = [proc EXCEPT ![p].pc = "book_commit"]
    /\ UNCHANGED <<hist, Availability, Bookings, call, response>>

\* lines 76-77, 104-105, 115-116: commit and return
Commit(p, from, result) ==
    /\ proc[p].pc = from
    /\ txn.owner = p
    /\ Bookings' = txn.rows
    /\ txn' = NoTxn
    /\ proc' = [proc EXCEPT ![p].pc = "done", ![p].result = result]
    /\ UNCHANGED <<hist, Availability, call, response>>

BookCommit(p) == Commit(p, "book_commit", BookingConfirmed)

\* modify_booking, lines 98-99 and 108: the SELECT of the booking
ModifySelect(p) ==
    /\ proc[p].pc = "modify_select"
    /\ LET booking == SelectBooking(Bookings, proc[p].booking_id) IN
       IF booking # None
       THEN proc' = [proc EXCEPT ![p].pc = "modify_check", ![p].booking = booking]
       ELSE proc' = [proc EXCEPT ![p].pc = "done", ![p].result = BookingNotFound]
    /\ UNCHANGED <<hist, Availability, Bookings, call, response, txn>>

\* modify_booking, lines 100 and 106-107
ModifyCheck(p) ==
    /\ proc[p].pc = "modify_check"
    /\ IF check_availability(Availability, proc[p].booking.restaurant_id,
                             proc[p].reservation_time, proc[p].party_size)
       THEN proc' = [proc EXCEPT ![p].pc = "modify_update"]
       ELSE proc' = [proc EXCEPT ![p].pc = "done", ![p].result = NoSlots]
    /\ UNCHANGED <<hist, Availability, Bookings, call, response, txn>>

\* modify_booking, lines 101-103: the UPDATE opens the write transaction
ModifyUpdate(p) ==
    /\ proc[p].pc = "modify_update"
    /\ txn = NoTxn
    /\ txn' = [owner |-> p,
               rows |-> UpdateBooking(Bookings, proc[p].booking_id,
                                      proc[p].reservation_time, proc[p].party_size)]
    /\ proc' = [proc EXCEPT ![p].pc = "modify_commit"]
    /\ UNCHANGED <<hist, Availability, Bookings, call, response>>

ModifyCommit(p) == Commit(p, "modify_commit", BookingUpdated)

\* cancel_booking, line 114: the DELETE opens the write transaction
CancelDelete(p) ==
    /\ proc[p].pc = "cancel_delete"
    /\ txn = NoTxn
    /\ txn' = [owner |-> p, rows |-> DeleteBooking(Bookings, proc[p].booking_id)]
    /\ proc' = [proc EXCEPT ![p].pc = "cancel_commit"]
    /\ UNCHANGED <<hist, Availability, Bookings, call, response>>

CancelCommit(p) == Commit(p, "cancel_commit", BookingCanceled)

\* the response has been printed; the process waits for the next request
Return(p) ==
    /\ proc[p].pc = "done"
    /\ proc' = [proc EXCEPT ![p] = Idle]
    /\ UNCHANGED <<hist, Availability, Bookings, call, response, txn>>

NextConc ==
    \E p \in Procs :
        \/ CallBook(p) \/ BookCheck(p) \/ BookInsert(p) \/ BookCommit(p)
        \/ CallModify(p) \/ ModifySelect(p) \/ ModifyCheck(p)
        \/ ModifyUpdate(p) \/ ModifyCommit(p)
        \/ CallCancel(p) \/ CancelDelete(p) \/ CancelCommit(p)
        \/ Return(p)

SpecConc == InitConc /\ [][NextConc]_vars

(* ======================= properties of the code ======================== *)
\* the capacity column of restaurant R
capacity(R) ==
    LET i == CHOOSE i \in 1..Len(Restaurants) : Restaurants[i].id = R
    IN  Restaurants[i].capacity

Entries(R, D) ==
    { i \in 1..Len(Availability) :
        Availability[i].restaurant_id = R /\ Availability[i].date = D }

HasEntry(R, D) == Entries(R, D) # {}

\* the ledger value of (R, D); it is only used where HasEntry(R, D)
SlotsIn(avail, R, D) ==
    LET i == CHOOSE i \in 1..Len(avail) :
                 avail[i].restaurant_id = R /\ avail[i].date = D
    IN  avail[i].available_slots

available_slots(R, D) == SlotsIn(Availability, R, D)

EntryKeys ==
    { <<Availability[i].restaurant_id, Availability[i].date>> : i \in 1..Len(Availability) }

\* the sum of party_size over the active bookings of R on D
RECURSIVE PartySum(_, _, _)
PartySum(rows, R, D) ==
    IF rows = << >> THEN 0
    ELSE (IF Head(rows).restaurant_id = R /\ Head(rows).reservation_time[1] = D
          THEN Head(rows).party_size ELSE 0) + PartySum(Tail(rows), R, D)

Active(rows, booking_id) == \E i \in 1..Len(rows) : rows[i].id = booking_id

RowOf(rows, booking_id) == rows[CHOOSE i \in 1..Len(rows) : rows[i].id = booking_id]

\* C1: for every (R, D) with an Availability entry, available_slots(R, D)
\* plus the party sizes of the active bookings of R on D equals capacity(R)
C1_LedgerInvariant ==
    \A k \in EntryKeys :
        available_slots(k[1], k[2]) + PartySum(Bookings, k[1], k[2]) = capacity(k[1])

\* C2: the party sizes of the active bookings of R on D never exceed
\* capacity(R)
C2_NeverOversold ==
    \A k \in EntryKeys : PartySum(Bookings, k[1], k[2]) <= capacity(k[1])

\* C3: two overlapping book_table calls on one (restaurant, date) whose party
\* sizes together exceed the slots of that date are never both confirmed
\* (no step of SpecConc changes Availability, so the slots of the date are
\* those the calls started with)
C3_NoDoubleConfirm ==
    \A p \in Procs, q \in Procs :
        ( /\ p # q
          /\ proc[p].pc = "done" /\ proc[q].pc = "done"
          /\ proc[p].op = "book_table" /\ proc[q].op = "book_table"
          /\ proc[p].overlap /\ proc[q].overlap
          /\ proc[p].restaurant_id = proc[q].restaurant_id
          /\ proc[p].reservation_time[1] = proc[q].reservation_time[1]
          /\ HasEntry(proc[p].restaurant_id, proc[p].reservation_time[1])
          /\ proc[p].party_size + proc[q].party_size
                > available_slots(proc[p].restaurant_id, proc[p].reservation_time[1]) )
        => ~ (proc[p].result = BookingConfirmed /\ proc[q].result = BookingConfirmed)

\* C4: a confirmed book_table of party_size p on (R, D) lowers
\* available_slots(R, D) by exactly p (to 0 when p was all that remained), and
\* a book_table on a date with 0 slots is refused and leaves the slots at 0
C4_BookReserves ==
    [][ (call'.op = "book_table" /\ HasEntry(call'.restaurant_id, call'.reservation_time[1])) =>
          LET R == call'.restaurant_id
              D == call'.reservation_time[1]
          IN  /\ response' = BookingConfirmed =>
                    SlotsIn(Availability', R, D) = available_slots(R, D) - call'.party_size
              /\ (available_slots(R, D) = 0 /\ call'.party_size >= 1) =>
                    (response' = NoSlots /\ SlotsIn(Availability', R, D) = 0) ]_vars

\* C5: cancel_booking of an active booking of party_size p on (R, D) removes
\* the booking and raises available_slots(R, D) by exactly p
C5_CancelReleases ==
    [][ (call'.op = "cancel_booking" /\ Active(Bookings, call'.booking_id)) =>
          LET b == RowOf(Bookings, call'.booking_id)
              D == b.reservation_time[1]
          IN  /\ ~ Active(Bookings', call'.booking_id)
              /\ SlotsIn(Availability', b.restaurant_id, D)
                    = available_slots(b.restaurant_id, D) + b.party_size ]_vars

\* C6: cancel_booking reports success only for a booking id that is active
\* when it is called, and NotFound otherwise
C6_CancelOnlyActive ==
    [][ call'.op = "cancel_booking" =>
          IF Active(Bookings, call'.booking_id)
          THEN response' = BookingCanceled
          ELSE response' = BookingNotFound ]_vars

\* C7: a modify_booking that succeeds in moving a booking of party size p_old
\* on D1 to another date D2 with party size p_new raises available_slots(R, D1)
\* by p_old and lowers available_slots(R, D2) by p_new
C7_ModifyMovesSlots ==
    [][ ( /\ call'.op = "modify_booking" /\ response' = BookingUpdated
          /\ Active(Bookings, call'.booking_id)
          /\ RowOf(Bookings, call'.booking_id).reservation_time[1] # call'.reservation_time[1] ) =>
          LET b  == RowOf(Bookings, call'.booking_id)
              R  == b.restaurant_id
              D1 == b.reservation_time[1]
              D2 == call'.reservation_time[1]
          IN  /\ SlotsIn(Availability', R, D1) = available_slots(R, D1) + b.party_size
              /\ SlotsIn(Availability', R, D2) = available_slots(R, D2) - call'.party_size ]_vars

\* C8: a modify_booking that returns the no-availability result leaves every
\* booking record and every available_slots value as it was before the call
C8_ModifyRefusedChangesNothing ==
    [][ (call'.op = "modify_booking" /\ response' = NoSlots) =>
          (Bookings' = Bookings /\ Availability' = Availability) ]_vars

\* a booking on a date whose slots are fewer than the party size asked for
\* has been refused modification and is still stored
C8_Witness ==
    /\ call.op = "modify_booking" /\ response = NoSlots
    /\ Active(Bookings, call.booking_id)
    /\ HasEntry(RowOf(Bookings, call.booking_id).restaurant_id, call.reservation_time[1])
    /\ available_slots(RowOf(Bookings, call.booking_id).restaurant_id,
                       call.reservation_time[1]) < call.party_size

\* C9: book_table on a (restaurant_id, date) with no Availability entry, or
\* with fewer available_slots than party_size, returns the no-availability
\* result, inserts no booking and changes no available_slots value
C9_BookRefused ==
    [][ ( /\ call'.op = "book_table"
          /\ \/ ~ HasEntry(call'.restaurant_id, call'.reservation_time[1])
             \/ available_slots(call'.restaurant_id, call'.reservation_time[1])
                   < call'.party_size ) =>
          (response' = NoSlots /\ Bookings' = Bookings /\ Availability' = Availability) ]_vars

\* a book_table for a date without an Availability entry has been refused
C9_Witness ==
    /\ call.op = "book_table" /\ response = NoSlots
    /\ call.restaurant_id = 1
    /\ ~ HasEntry(call.restaurant_id, call.reservation_time[1])

\* C10: modify_booking on a booking id that is not active returns NotFound
\* and leaves every booking record and every available_slots value unchanged
C10_ModifyNotFound ==
    [][ (call'.op = "modify_booking" /\ ~ Active(Bookings, call'.booking_id)) =>
          (response' = BookingNotFound /\ Bookings' = Bookings
             /\ Availability' = Availability) ]_vars

\* a modify_booking of an id that is not stored, while other bookings are,
\* has returned NotFound
C10_Witness ==
    /\ call.op = "modify_booking" /\ response = BookingNotFound
    /\ Bookings # << >>
    /\ ~ Active(Bookings, call.booking_id)

\* C11: every Availability entry satisfies 0 <= available_slots <= capacity
\* of its restaurant, also after a staff override (an override outside that
\* range being rejected without effect)
C11_SlotsInRange ==
    \A i \in 1..Len(Availability) :
        /\ 0 <= Availability[i].available_slots
        /\ Availability[i].available_slots <= capacity(Availability[i].restaurant_id)

\* C12: a modify_booking that keeps the booking's date succeeds exactly when
\* new_party_size - old_party_size <= available_slots of that date
C12_SameDateNetChange ==
    [][ ( /\ call'.op = "modify_booking"
          /\ Active(Bookings, call'.booking_id)
          /\ RowOf(Bookings, call'.booking_id).reservation_time[1] = call'.reservation_time[1]
          /\ HasEntry(RowOf(Bookings, call'.booking_id).restaurant_id,
                      call'.reservation_time[1]) ) =>
          LET b == RowOf(Bookings, call'.booking_id)
          IN  (response' = BookingUpdated)
                <=> (call'.party_size - b.party_size
                        <= available_slots(b.restaurant_id, call'.reservation_time[1])) ]_vars

\* C13: an id of a booking that has been cancelled is never the id of a
\* later booking
C13_IdsNeverReused ==
    \A i \in 1..Len(Bookings) : Bookings[i].id \notin hist.deleted

\* C14: a modify_booking that commits returns the updated result only if the
\* booking is then stored with the new reservation_time and party_size, and
\* NotFound if a cancel_booking has deleted it in between
C14_ModifyAfterCancel ==
    [][ \A p \in Procs :
          (proc[p].pc = "modify_commit" /\ proc'[p].pc = "done") =>
             IF Active(Bookings', proc[p].booking_id)
             THEN /\ proc'[p].result = BookingUpdated
                  /\ RowOf(Bookings', proc[p].booking_id).reservation_time
                        = proc[p].reservation_time
                  /\ RowOf(Bookings', proc[p].booking_id).party_size = proc[p].party_size
             ELSE proc'[p].result = BookingNotFound ]_vars

\* the stored bookings of restaurant R in the order book_table created them
InCreationOrder(R) ==
    LET Mine(id) == Active(Bookings, id) /\ RowOf(Bookings, id).restaurant_id = R
        ids == SelectSeq(hist.order, Mine)
    IN  [ i \in 1..Len(ids) |-> RowOf(Bookings, ids[i]) ]

\* C15: view_bookings(restaurant_id) yields exactly the stored bookings of
\* that restaurant, each once, in the order book_table created them
C15_ViewInCreationOrder ==
    call.op = "view_bookings" =>
        /\ response = InCreationOrder(call.restaurant_id)
        /\ \A i \in 1..Len(Bookings) :
              Bookings[i].restaurant_id = call.restaurant_id =>
                 Cardinality({ j \in 1..Len(response) : response[j] = Bookings[i] }) = 1

\* two bookings are listed, the older first, after an earlier booking was
\* cancelled and one of them modified
C15_Witness ==
    /\ call.op = "view_bookings"
    /\ Len(response) = 2
    /\ hist.deleted # {}
    /\ response[1].id < response[2].id
    /\ response[1].party_size # response[2].party_size

\* C16: a successful modify_booking changes only reservation_time and
\* party_size of the booking with the given id; its other fields, every other
\* booking and the set of stored ids are unchanged
C16_ModifyFrame ==
    [][ (call'.op = "modify_booking" /\ response' = BookingUpdated) =>
          /\ Len(Bookings') = Len(Bookings)
          /\ \A i \in 1..Len(Bookings) :
                /\ Bookings'[i].id = Bookings[i].id
                /\ Bookings'[i].restaurant_id = Bookings[i].restaurant_id
                /\ Bookings'[i].customer_name = Bookings[i].customer_name
                /\ Bookings'[i].customer_phone = Bookings[i].customer_phone
                /\ IF Bookings[i].id = call'.booking_id
                   THEN /\ Bookings'[i].reservation_time = call'.reservation_time
                        /\ Bookings'[i].party_size = call'.party_size
                   ELSE Bookings'[i] = Bookings[i] ]_vars

\* a booking has been given another date and party size while another
\* booking, with different values, is stored
C16_Witness ==
    /\ call.op = "modify_booking" /\ response = BookingUpdated
    /\ Len(Bookings) = 2
    /\ \E i \in 1..2 :
          /\ Bookings[i].id = call.booking_id
          /\ Bookings[3 - i].reservation_time # call.reservation_time
          /\ Bookings[3 - i].party_size # call.party_size

\* C17: book_table, modify_booking and cancel_booking change no Availability
\* row; a start of the program changes no existing row; update_availability
\* changes no booking and overwrites the value of the single row of the
\* (restaurant_id, date) it names
C17_OnlyStaffWritesOneEntry ==
    [][ /\ call'.op \in {"book_table", "modify_booking", "cancel_booking"} =>
              Availability' = Availability
        /\ call'.op = "main" =>
              SubSeq(Availability', 1, Len(Availability)) = Availability
        /\ call'.op = "update_availability" =>
              /\ Bookings' = Bookings
              /\ Len(Availability') = Len(Availability)
              /\ Cardinality(Entries(call'.restaurant_id, call'.date)) <= 1
              /\ \A i \in 1..Len(Availability) :
                    IF i \in Entries(call'.restaurant_id, call'.date)
                    THEN Availability'[i]
                           = [Availability[i] EXCEPT !.available_slots = call'.available_slots]
                    ELSE Availability'[i] = Availability[i] ]_vars

====
